---- MODULE Spec2Model ----
(***************************************************************************)
(* Streaming chat client: the SSE transport client (SSEClient), the chat   *)
(* handler hook (useChatHandler), the zustand chat store and the           *)
(* localStorage persistence synchroniser (useConversationPersistence).     *)
(*                                                                         *)
(* One action is one browser task: an event handler or a promise           *)
(* continuation, together with the microtasks it queues and the React      *)
(* re-render (with its effects) that follows every store update.           *)
(***************************************************************************)
EXTENDS Integers, Sequences, FiniteSets, TLC

(* ------------------------------- bounds -------------------------------- *)
\* calls of useChatHandler.sendMessage
MaxSends == 2
\* chunk records handed to onChunk during one page load
MaxChunks == 2
\* protocol lines completed by one reader.read() result
MaxLines == 1
\* forced shutdowns followed by a reload of the page
MaxRestarts == 1
\* user gestures other than sending: Stop, New Chat, a click on a
\* conversation, a delete, a file upload
MaxGestures == 2

(* --------------------------- program values ---------------------------- *)
\* text is a sequence of characters; '' is the empty sequence.
\* The chunk records a server sends: content and message_id (0 when absent)
Chunks ==
    {[kind |-> "chunk", content |-> <<"a">>, id |-> 0],
     [kind |-> "chunk", content |-> <<"b">>, id |-> 101],
     [kind |-> "chunk", content |-> <<"a">>, id |-> 102]}
\* text of the message the user sends
UserText == <<"q">>
\* the value undefined, as the text that string concatenation makes of it
undefined == <<"undefined">>
\* currentConversation: null
NoConversation ==
    [id |-> 0, title |-> "", messages |-> <<>>, created_at |-> 0, updated_at |-> 0]
\* pendingRoute: no navigation under way
NoRoute == -1
\* pendingRoute: navigation to '/'
HomeRoute == 0

ErrDefault == "Stream request failed"
ErrServer == "server message"
ErrHttp == "HTTP status"
\* the TypeError of reading .message of null
ErrTypeError == "Cannot read properties of null"
ErrNoBody == "Response body is null"
ErrNetwork == "network failure"
NoError == "null"

(* ------------------------------ chat store ----------------------------- *)
\* An array built element by element is written [i \in ... |-> ...] \o <<>>:
\* the concatenation with the empty array makes it a plain sequence.
\* create<ChatState>: the initial state of the store
InitialStore ==
    [currentConversation |-> NoConversation,
     conversations |-> <<>>,
     isStreaming |-> FALSE,
     currentStreamingMessage |-> <<>>,
     error |-> NoError]

setCurrentConversation(st, conversation) ==
    [st EXCEPT !.currentConversation = conversation]

setConversations(st, convs) ==
    [st EXCEPT !.conversations = convs]

addConversation(st, conversation) ==
    [st EXCEPT !.conversations = <<conversation>> \o @]

\* updateMessages putting the new message first
updateMessages_Prepends(conv, message, t) ==
    [conv EXCEPT !.messages = <<message>> \o @, !.updated_at = t]

updateMessages(conv, message, t) ==
    [conv EXCEPT !.messages = Append(@, message), !.updated_at = t]

\* addMessage that leaves currentConversation as it is
addMessage_ListOnly(st, conversationId, message, t) ==
    [st EXCEPT
        !.conversations =
            [i \in DOMAIN @ |->
                IF @[i].id = conversationId
                THEN updateMessages(@[i], message, t) ELSE @[i]] \o <<>>]

\* addMessage without the id test on the list entries
addMessage_Everywhere(st, conversationId, message, t) ==
    [st EXCEPT
        !.conversations =
            [i \in DOMAIN @ |-> updateMessages(@[i], message, t)] \o <<>>,
        !.currentConversation =
            IF @.id # 0 /\ @.id = conversationId
            THEN updateMessages(@, message, t) ELSE @]

addMessage(st, conversationId, message, t) ==
    [st EXCEPT
        !.conversations =
            [i \in DOMAIN @ |->
                IF @[i].id = conversationId
                THEN updateMessages(@[i], message, t) ELSE @[i]] \o <<>>,
        !.currentConversation =
            IF @.id # 0 /\ @.id = conversationId
            THEN updateMessages(@, message, t) ELSE @]

\* updateConversation with updates = { title }: { ...conv, ...updates }
updateConversation(st, conversationId, updates) ==
    [st EXCEPT
        !.conversations =
            [i \in DOMAIN @ |->
                IF @[i].id = conversationId
                THEN [@[i] EXCEPT !.title = updates.title] ELSE @[i]] \o <<>>,
        !.currentConversation =
            IF @.id # 0 /\ @.id = conversationId
            THEN [@ EXCEPT !.title = updates.title] ELSE @]

\* deleteConversation leaving currentConversation as it is
deleteConversation_KeepsCurrent(st, conversationId) ==
    [st EXCEPT
        !.conversations = SelectSeq(@, LAMBDA conv : conv.id # conversationId)]

deleteConversation(st, conversationId) ==
    [st EXCEPT
        !.conversations = SelectSeq(@, LAMBDA conv : conv.id # conversationId),
        !.currentConversation =
            IF @.id # 0 /\ @.id = conversationId THEN NoConversation ELSE @]

setIsStreaming(st, b) == [st EXCEPT !.isStreaming = b]

appendToStreamingMessage(st, chunk) ==
    [st EXCEPT !.currentStreamingMessage = @ \o chunk]

clearStreamingMessage(st) == [st EXCEPT !.currentStreamingMessage = <<>>]

setError(st, e) == [st EXCEPT !.error = e]

(* ------------------------ durable persistence --------------------------- *)
\* JSON text is modelled as what JSON.stringify writes: for an object the
\* sequence of its <<key, value>> members, for an array the sequence of its
\* elements.  JSON.parse rebuilds the object by looking its members up by key.
Member(obj, key) == obj[CHOOSE i \in 1..Len(obj) : obj[i][1] = key][2]

StringifyMessage(m) ==
    << <<"id", m.id>>, <<"role", m.role>>, <<"content", m.content>>,
       <<"timestamp", m.timestamp>> >>

ParseMessage(j) ==
    [id |-> Member(j, "id"), role |-> Member(j, "role"),
     content |-> Member(j, "content"), timestamp |-> Member(j, "timestamp")]

\* a serialisation that writes the messages last first
StringifyConversation_Reversed(c) ==
    << <<"id", c.id>>, <<"title", c.title>>,
       <<"messages",
         [i \in 1..Len(c.messages) |->
             StringifyMessage(c.messages[Len(c.messages) + 1 - i])] \o <<>> >>,
       <<"created_at", c.created_at>>, <<"updated_at", c.updated_at>> >>

StringifyConversation(c) ==
    << <<"id", c.id>>, <<"title", c.title>>,
       <<"messages",
         [i \in 1..Len(c.messages) |-> StringifyMessage(c.messages[i])] \o <<>> >>,
       <<"created_at", c.created_at>>, <<"updated_at", c.updated_at>> >>

ParseConversation(j) ==
    [id |-> Member(j, "id"), title |-> Member(j, "title"),
     messages |-> [i \in 1..Len(Member(j, "messages")) |->
                      ParseMessage(Member(j, "messages")[i])] \o <<>>,
     created_at |-> Member(j, "created_at"),
     updated_at |-> Member(j, "updated_at")]

\* JSON.stringify(conversations) / JSON.parse(data) of the stored array
Stringify(convs) ==
    [i \in 1..Len(convs) |-> StringifyConversation(convs[i])] \o <<>>
Parse(data) == [i \in 1..Len(data) |-> ParseConversation(data[i])] \o <<>>

\* localStorage.getItem(STORAGE_KEY): the empty text stands for null as well,
\* both are falsy and give []
getStoredConversations(ls) == IF Len(ls) = 0 THEN <<>> ELSE Parse(ls)

setStoredConversations(convs) == Stringify(convs)

\* findIndex: the first index holding the id, 0 (for -1) when there is none
findIndex(convs, id) ==
    IF \E i \in 1..Len(convs) : convs[i].id = id
    THEN CHOOSE i \in 1..Len(convs) :
            /\ convs[i].id = id
            /\ \A j \in 1..(i - 1) : convs[j].id # id
    ELSE 0

\* save that only inserts: a record already stored is not replaced
save_InsertOnly(ls, conversation) ==
    LET convs == getStoredConversations(ls)
        index == findIndex(convs, conversation.id)
    IN  IF index # 0
        THEN ls
        ELSE setStoredConversations(<<conversation>> \o convs)

\* save that removes the stored record and puts the new one at the front
save_MovesToFront(ls, conversation) ==
    setStoredConversations(
        <<conversation>> \o
        SelectSeq(getStoredConversations(ls), LAMBDA c : c.id # conversation.id))

save(ls, conversation) ==
    LET convs == getStoredConversations(ls)
        index == findIndex(convs, conversation.id)
    IN  IF index # 0
        THEN setStoredConversations([convs EXCEPT ![index] = conversation])
        ELSE setStoredConversations(<<conversation>> \o convs)

load(ls, conversationId) ==
    LET convs == getStoredConversations(ls)
        index == findIndex(convs, conversationId)
    IN  IF index # 0 THEN convs[index] ELSE NoConversation

loadAll(ls) == getStoredConversations(ls)

\* delete that leaves the stored array as it is
delete_KeepsRecord(ls, conversationId) == ls

delete(ls, conversationId) ==
    setStoredConversations(
        SelectSeq(getStoredConversations(ls), LAMBDA c : c.id # conversationId))

RECURSIVE saveEach(_, _, _)
\* conversations.forEach(conv => conversationPersistence.save(conv))
saveEach(ls, convs, i) ==
    IF i > Len(convs) THEN ls ELSE saveEach(save(ls, convs[i]), convs, i + 1)

\* The two save effects of one useConversationPersistence instance, run by
\* the render that follows a store update: curChanged / convsChanged say
\* whether the dependency got a new object since the previous render.
saveEffects(ls, st, curChanged, convsChanged, loaded) ==
    LET ls1 == IF curChanged /\ st.currentConversation.id # 0
               THEN save(ls, st.currentConversation) ELSE ls
    IN  IF convsChanged /\ loaded /\ Len(st.conversations) > 0
        THEN saveEach(ls1, st.conversations, 1) ELSE ls1

\* HomePage mounts the hook twice (the destructured call and the
\* "Initialize persistence" call): both instances run their effects.
useConversationPersistence(ls, st, curChanged, convsChanged, loaded) ==
    saveEffects(saveEffects(ls, st, curChanged, convsChanged, loaded),
                st, curChanged, convsChanged, loaded)

(* -------------------------------- state -------------------------------- *)
VARIABLES
    store,          \* useChatStore: the zustand state
    localStorage,   \* the JSON text stored under STORAGE_KEY
    mounted,        \* HomePage is mounted (the handlers exist)
    loadedRef,      \* useConversationPersistence: loadedRef.current
    controller,     \* SSEClient.controller: 0 for null, else the stream that made it
    streams,        \* the calls of streamChatCompletion of this page load
    upload,         \* handleFileUpload waiting for uploadFile, with its closure
    pendingRoute,   \* router.push under way: NoRoute, HomeRoute or a conversation id
    nextId,         \* crypto.randomUUID(): the next fresh id
    now,            \* new Date(): the wall clock, in milliseconds
    sendCalls,      \* calls of sendMessage so far
    chunkCount,     \* chunk records handed to onChunk in this page load
    restarts,       \* forced shutdowns so far
    gestures,       \* user gestures other than sending so far
    deleted,        \* history: ids given to handleConversationDelete
    written,        \* history: the conversations as last handed to save, by id
    wire,           \* transport: the bytes of the response body of stream 1
    pos,            \* transport: how many of them reader.read() has delivered
    decoder,        \* streamChatCompletion: bytes the TextDecoder holds back
    buffer,         \* streamChatCompletion: the carry-over line fragment
    emitted,        \* history: the callbacks streamChatCompletion made
    midLine         \* history: a delivery ended inside a line

vars == <<store, localStorage, mounted, loadedRef, controller, streams, upload,
          pendingRoute, nextId, now, sendCalls, chunkCount, restarts, gestures,
          deleted, written, wire, pos, decoder, buffer, emitted,
          midLine>>

InFlightPcs == {"fetch", "errbody", "read"}

InFlight(sr) == sr.pc \in InFlightPcs

\* one call of streamChatCompletion, with the locals of the sendMessage call
\* that made it (conversation, assistantMessageId) and its history
NewStream(conversationId, userMessageId, userSeen) ==
    [pc |-> "fetch",            \* the await the call is suspended at
     conv |-> conversationId,   \* sendMessage: conversation.id
     msgId |-> 0,               \* sendMessage: assistantMessageId, 0 for null
     recv |-> <<>>,             \* history: the contents handed to onChunk, concatenated
     ids |-> <<>>,              \* history: the message_id of each chunk handed to onChunk
     outcome |-> "none",        \* history: complete, error or silent
     nterm |-> 0,               \* history: calls of onComplete and onError
     appended |-> 0,            \* history: assistant messages the store took
     lost |-> 0,                \* history: assistant messages no conversation took
     exact |-> FALSE,           \* history: at onComplete the buffer was recv
     empty |-> FALSE,           \* history: at onComplete recv was ''
     userMsg |-> userMessageId, \* history: id of the user message of the call
     userSeen |-> userSeen,     \* history: the user message was in the store at fetch
     err |-> NoError,           \* history: the message onError was called with
     aborted |-> FALSE,         \* history: controller.abort() hit this call
     cancelled |-> FALSE,       \* history: cancelStream ran while it was in flight
     convDeleted |-> FALSE,     \* history: its conversation was deleted in flight
     late |-> 0,                \* history: callbacks invoked after the abort
     after |-> 0]               \* history: onChunk calls after the terminal outcome

(* ----------------------- one task's working state ----------------------- *)
\* The store, the SSE client's controller and the uuid source as one task
\* reads and writes them; cur / convs record whether currentConversation /
\* conversations got a new object (the dependencies of the save effects),
\* clock whether the task read the wall clock, log the callbacks the
\* transport client made (history, kept on the wire only).  All clock readings of one
\* task fall into the same millisecond; a later task reads a later time.
Task ==
    [st |-> store, ctl |-> controller, id |-> nextId, cur |-> FALSE,
     convs |-> FALSE, route |-> pendingRoute, ss |-> streams,
     chunks |-> chunkCount, clock |-> FALSE, log |-> emitted]

HasConversation(st, conversationId) ==
    \/ st.currentConversation.id = conversationId
    \/ \E i \in 1..Len(st.conversations) : st.conversations[i].id = conversationId

tAddMessage(c, conversationId, message) ==
    [c EXCEPT !.st = addMessage(@, conversationId, message, now),
              !.convs = TRUE, !.clock = TRUE,
              !.cur = @ \/ c.st.currentConversation.id = conversationId]

(* --------------------- useChatHandler: the callbacks -------------------- *)
\* history kept with every callback of stream s
Called(sr, terminal) ==
    [sr EXCEPT !.late = IF sr.aborted THEN @ + 1 ELSE @,
               !.nterm = IF terminal THEN @ + 1 ELSE @,
               !.after = IF ~terminal /\ sr.nterm > 0 THEN @ + 1 ELSE @]

\* onChunk taking the message_id of every chunk that carries one
onChunk_LastWriter(c, s, chunk) ==
    LET sr == c.ss[s]
        sr1 == [Called(sr, FALSE) EXCEPT
                   !.msgId = IF chunk.id # 0 THEN chunk.id ELSE @,
                   !.recv = @ \o chunk.content,
                   !.ids = Append(@, chunk.id)]
    IN  [c EXCEPT !.st = appendToStreamingMessage(@, chunk.content),
                  !.chunks = @ + 1,
                  !.log = Append(@, chunk),
                  !.ss[s] = sr1]

onChunk(c, s, chunk) ==
    LET sr == c.ss[s]
        sr1 == [Called(sr, FALSE) EXCEPT
                   !.msgId = IF chunk.id # 0 /\ sr.msgId = 0 THEN chunk.id ELSE @,
                   !.recv = @ \o chunk.content,
                   !.ids = Append(@, chunk.id)]
    IN  [c EXCEPT !.st = appendToStreamingMessage(@, chunk.content),
                  !.chunks = @ + 1,
                  !.log = Append(@, chunk),
                  !.ss[s] = sr1]

\* onError without clearStreamingMessage()
onError_KeepsBuffer(c, s, message) ==
    [c EXCEPT !.st = setIsStreaming(setError(@, message), FALSE),
              !.log = Append(@, [kind |-> "error", content |-> <<>>, id |-> 0]),
              !.ss[s] = [Called(@, TRUE) EXCEPT !.outcome = "error", !.err = message]]

onError(c, s, message) ==
    [c EXCEPT !.st = clearStreamingMessage(setIsStreaming(setError(@, message), FALSE)),
              !.log = Append(@, [kind |-> "error", content |-> <<>>, id |-> 0]),
              !.ss[s] = [Called(@, TRUE) EXCEPT !.outcome = "error", !.err = message]]

\* onComplete without the test of streamedContent
onComplete_AlwaysAppends(c, s) ==
    LET sr == c.ss[s]
        streamedContent == c.st.currentStreamingMessage
        assistantMessage ==
            [id |-> IF sr.msgId # 0 THEN sr.msgId ELSE c.id,
             role |-> "assistant",
             content |-> streamedContent,
             timestamp |-> now]
        found == HasConversation(c.st, sr.conv)
        c1 == [tAddMessage(c, sr.conv, assistantMessage) EXCEPT
                  !.id = IF sr.msgId # 0 THEN @ ELSE @ + 1,
                  !.ss[s].appended = IF found THEN @ + 1 ELSE @,
                  !.ss[s].lost = IF found THEN @ ELSE @ + 1]
    IN  [c1 EXCEPT !.st = clearStreamingMessage(setIsStreaming(@, FALSE)),
                   !.log = Append(@, [kind |-> "complete", content |-> <<>>, id |-> 0]),
                   !.ss[s] = [Called(@, TRUE) EXCEPT
                                 !.outcome = "complete",
                                 !.exact = (streamedContent = sr.recv),
                                 !.empty = (Len(sr.recv) = 0)]]

onComplete(c, s) ==
    LET sr == c.ss[s]
        streamedContent == c.st.currentStreamingMessage
        assistantMessage ==
            [id |-> IF sr.msgId # 0 THEN sr.msgId ELSE c.id,
             role |-> "assistant",
             content |-> streamedContent,
             timestamp |-> now]
        found == HasConversation(c.st, sr.conv)
        c1 == IF Len(streamedContent) > 0
              THEN [tAddMessage(c, sr.conv, assistantMessage) EXCEPT
                       !.id = IF sr.msgId # 0 THEN @ ELSE @ + 1,
                       !.ss[s].appended = IF found THEN @ + 1 ELSE @,
                       !.ss[s].lost = IF found THEN @ ELSE @ + 1]
              ELSE c
    IN  [c1 EXCEPT !.st = clearStreamingMessage(setIsStreaming(@, FALSE)),
                   !.log = Append(@, [kind |-> "complete", content |-> <<>>, id |-> 0]),
                   !.ss[s] = [Called(@, TRUE) EXCEPT
                                 !.outcome = "complete",
                                 !.exact = (streamedContent = sr.recv),
                                 !.empty = (Len(sr.recv) = 0)]]

(* ------------------ SSEClient.streamChatCompletion ---------------------- *)
\* finally { this.controller = null }, and the call returns: the locals of
\* the call (and the history kept of them) are gone
Finish(c, s) ==
    [c EXCEPT !.ctl = 0, !.ss[s].pc = "closed", !.ss[s].msgId = 0,
              !.ss[s].recv = <<>>]

\* a protocol line as the line loop classifies it
LineEvents ==
    [kind : {"skip", "done", "final"}, content : {<<>>}, id : {0}] \cup Chunks

RECURSIVE RunLines_NoReturn(_, _, _, _)
\* the line loop going on after onComplete instead of returning
RunLines_NoReturn(c, s, lines, i) ==
    IF i > Len(lines) THEN c
    ELSE IF lines[i].kind = "skip" THEN RunLines_NoReturn(c, s, lines, i + 1)
    ELSE IF lines[i].kind \in {"done", "final"}
         THEN RunLines_NoReturn(onComplete(c, s), s, lines, i + 1)
    ELSE RunLines_NoReturn(onChunk(c, s, lines[i]), s, lines, i + 1)

RECURSIVE RunLines(_, _, _, _)
\* for (const line of lines) { ... }: the call returns at the first [DONE]
\* line or is_final record and goes on to the next read otherwise
RunLines(c, s, lines, i) ==
    IF i > Len(lines) THEN c
    ELSE IF lines[i].kind = "skip" THEN RunLines(c, s, lines, i + 1)
    ELSE IF lines[i].kind \in {"done", "final"} THEN Finish(onComplete(c, s), s)
    ELSE RunLines(onChunk(c, s, lines[i]), s, lines, i + 1)

\* the rejection of the pending await by controller.abort(), run to the end
\* of the call: an AbortError returns silently; inside response.json() the
\* .catch() replaces it by the default message, which is then thrown
AbortContinuation(c, s) ==
    IF c.ss[s].pc = "errbody" THEN Finish(onError(c, s, ErrDefault), s)
    ELSE IF c.ss[s].pc \in {"fetch", "read"}
         THEN Finish([c EXCEPT !.ss[s].outcome = "silent"], s)
    ELSE c

\* SSEClient.cancel()
cancel(c) ==
    IF c.ctl # 0
    THEN [c EXCEPT !.ss[c.ctl].aborted = TRUE, !.ctl = 0]
    ELSE c

(* ----------------------------- useChatHandler --------------------------- *)
UserMessageIn(st, conversationId, messageId) ==
    \/ /\ st.currentConversation.id = conversationId
       /\ \E k \in 1..Len(st.currentConversation.messages) :
              st.currentConversation.messages[k].id = messageId
    \/ \E i \in 1..Len(st.conversations) :
          /\ st.conversations[i].id = conversationId
          /\ \E k \in 1..Len(st.conversations[i].messages) :
                 st.conversations[i].messages[k].id = messageId

createNewConversation(c) ==
    LET newConversation ==
            [id |-> c.id, title |-> "New Chat", messages |-> <<>>,
             created_at |-> now, updated_at |-> now]
    IN  [c EXCEPT !.st = setCurrentConversation(addConversation(@, newConversation),
                                                newConversation),
                  !.id = @ + 1, !.cur = TRUE, !.convs = TRUE, !.clock = TRUE,
                  !.route = newConversation.id]

\* chatService.sendMessage -> streamChatCompletion up to its first await:
\* a new AbortController replaces the client's controller, fetch is issued
streamChatCompletion(c, conversationId, userMessageId) ==
    [c EXCEPT !.ctl = Len(c.ss) + 1,
              !.ss = Append(@, NewStream(conversationId, userMessageId,
                        UserMessageIn(c.st, conversationId, userMessageId)))]

\* sendMessage that first removes a trailing assistant message of the
\* conversation (a retry that replaces the answer)
sendMessage_Regenerates(c, closure, messageContent) ==
    LET dropLast(conv) ==
            IF /\ conv.id # 0 /\ conv.id = closure.conv /\ Len(conv.messages) > 0
               /\ conv.messages[Len(conv.messages)].role = "assistant"
            THEN [conv EXCEPT !.messages = SubSeq(@, 1, Len(@) - 1)]
            ELSE conv
        c0 == [c EXCEPT
                 !.st.conversations = [i \in DOMAIN @ |-> dropLast(@[i])] \o <<>>,
                 !.st.currentConversation = dropLast(@)]
        c1 == IF closure.conv # 0 THEN c0 ELSE createNewConversation(c0)
        conversationId == IF closure.conv # 0 THEN closure.conv ELSE c.id
        userMessage ==
            [id |-> c1.id, role |-> "user", content |-> messageContent,
             timestamp |-> now]
        c2 == [tAddMessage(c1, conversationId, userMessage) EXCEPT !.id = @ + 1]
        c3 == [c2 EXCEPT !.st = clearStreamingMessage(setIsStreaming(@, TRUE))]
    IN  IF closure.isStreaming THEN c1
        ELSE streamChatCompletion(c3, conversationId, userMessage.id)

\* sendMessage as created by a render in which the hook read closure.conv as
\* currentConversation (0 for null) and closure.isStreaming as isStreaming
sendMessage(c, closure, messageContent) ==
    LET c1 == IF closure.conv # 0 THEN c ELSE createNewConversation(c)
        conversationId == IF closure.conv # 0 THEN closure.conv ELSE c.id
        userMessage ==
            [id |-> c1.id, role |-> "user", content |-> messageContent,
             timestamp |-> now]
        c2 == [tAddMessage(c1, conversationId, userMessage) EXCEPT !.id = @ + 1]
        c3 == [c2 EXCEPT !.st = clearStreamingMessage(setIsStreaming(@, TRUE))]
    IN  IF closure.isStreaming THEN c1
        ELSE streamChatCompletion(c3, conversationId, userMessage.id)

\* cancelStream, followed by the continuation of the call it aborted
cancelStream(c) ==
    LET a == c.ctl
        c1 == cancel(c)
        c2 == [c1 EXCEPT
                 !.ss = [s \in DOMAIN @ |->
                           IF InFlight(@[s]) THEN [@[s] EXCEPT !.cancelled = TRUE]
                           ELSE @[s]] \o <<>>,
                 !.st = clearStreamingMessage(setIsStreaming(@, FALSE))]
    IN  IF a # 0 THEN AbortContinuation(c2, a) ELSE c2

(* ------------------------- render and its effects ----------------------- *)
\* history: the conversation values the save effects hand to save
Saved(st, curChanged, convsChanged, loaded) ==
    LET fromList == IF convsChanged /\ loaded /\ Len(st.conversations) > 0
                    THEN {st.conversations[i] : i \in 1..Len(st.conversations)}
                    ELSE {}
        fromCur == IF /\ curChanged
                      /\ st.currentConversation.id # 0
                      /\ \A v \in fromList : v.id # st.currentConversation.id
                   THEN {st.currentConversation} ELSE {}
    IN  fromList \cup fromCur

WrittenAfter(w, st, curChanged, convsChanged, loaded) ==
    LET saved == Saved(st, curChanged, convsChanged, loaded)
    IN  {v \in w : \A x \in saved : x.id # v.id} \cup saved

\* the end of a task: the store update is published, React re-renders and
\* runs the save effects; ls is localStorage as the task itself left it
Commit(c, ls, w) ==
    /\ store' = c.st
    /\ controller' = c.ctl
    /\ nextId' = c.id
    /\ streams' = c.ss
    /\ pendingRoute' = c.route
    /\ chunkCount' = c.chunks
    /\ now' = IF c.clock THEN now + 1 ELSE now
    /\ localStorage' = useConversationPersistence(ls, c.st, c.cur, c.convs, TRUE)
    /\ written' = WrittenAfter(w, c.st, c.cur, c.convs, TRUE)

(* -------------------------------- actions ------------------------------- *)
NoUpload == [pending |-> FALSE, conv |-> 0]

\* the page before it is opened, nothing stored
InitPage ==
    /\ store = InitialStore
    /\ localStorage = <<>>
    /\ mounted = FALSE
    /\ loadedRef = FALSE
    /\ controller = 0
    /\ streams = <<>>
    /\ upload = NoUpload
    /\ pendingRoute = NoRoute
    /\ nextId = 1
    /\ now = 0
    /\ sendCalls = 0
    /\ chunkCount = 0
    /\ restarts = 0
    /\ gestures = 0
    /\ deleted = {}
    /\ written = {}
    /\ pos = 0
    /\ decoder = <<>>
    /\ buffer = <<>>
    /\ emitted = <<>>
    /\ midLine = FALSE

Init ==
    /\ InitPage
    /\ wire = <<>>

\* one more user gesture other than sending
Gesture ==
    /\ gestures < MaxGestures
    /\ gestures' = gestures + 1

ConversationIds == {store.conversations[i].id : i \in 1..Len(store.conversations)}

StoredIds ==
    {loadAll(localStorage)[i].id : i \in 1..Len(loadAll(localStorage))}

\* useConversationPersistence, the load effect: loadAll, then
\* setConversations when something was stored
loadConversations(c, ls) ==
    IF Len(loadAll(ls)) > 0
    THEN [c EXCEPT !.st = setConversations(@, loadAll(ls)), !.convs = TRUE]
    ELSE c

\* ConversationPage, the loadConversation effect for /chat/<conversationId>
loadConversation(c, ls, conversationId) ==
    IF load(ls, conversationId).id # 0
    THEN [c EXCEPT !.st = setCurrentConversation(@, load(ls, conversationId)),
                   !.cur = TRUE]
    ELSE [c EXCEPT !.route = HomeRoute]

\* a page (HomePage, or ConversationPage around it) mounts for route r:
\* the hook's load effect, its render and save effects, then the page's
\* loadConversation effect
MountPage(c, r) ==
    LET c1 == loadConversations(c, localStorage)
        ls1 == useConversationPersistence(localStorage, c1.st, FALSE, c1.convs, TRUE)
        w1 == WrittenAfter(written, c1.st, FALSE, c1.convs, TRUE)
        c2 == [c1 EXCEPT !.convs = FALSE]
        c3 == IF r = HomeRoute THEN c2 ELSE loadConversation(c2, ls1, r)
    IN  Commit(c3, ls1, w1)

\* the page is opened at '/' or at the URL of a stored conversation: the
\* first render is committed and painted, its effects are still to run
MountRender ==
    /\ ~mounted
    /\ mounted' = TRUE
    /\ \E r \in {HomeRoute} \cup StoredIds : pendingRoute' = r
    /\ UNCHANGED <<store, localStorage, loadedRef, controller, streams, upload,
                   nextId, now, sendCalls, chunkCount, restarts, gestures, deleted,
                   written, wire, pos, decoder, buffer, emitted, midLine>>

\* the effects of the first render run: loadAll, setConversations, the save
\* effects, the page's loadConversation
MountEffects ==
    /\ mounted
    /\ ~loadedRef
    /\ MountPage([Task EXCEPT !.route = NoRoute], pendingRoute)
    /\ loadedRef' = TRUE
    /\ UNCHANGED <<mounted, upload, sendCalls, restarts, gestures, deleted, wire, pos,
                   decoder, buffer, emitted, midLine>>

\* HomePage.handleSend on the painted page before the effects of its first
\* render have run (at '/'): the handler updates the store and issues the
\* request; the pending load effects read localStorage; the render after
\* the store update runs the save effects with loadedRef.current false;
\* the continuation of loadConversations then replaces the list by what it
\* had read and sets loadedRef.current
EarlySendMessage ==
    /\ mounted
    /\ ~loadedRef
    /\ pendingRoute = HomeRoute
    /\ sendCalls < MaxSends
    /\ LET c1 == sendMessage([Task EXCEPT !.route = NoRoute],
                             [conv |-> store.currentConversation.id,
                              isStreaming |-> store.isStreaming], UserText)
           ls1 == useConversationPersistence(localStorage, c1.st, c1.cur, c1.convs,
                                             FALSE)
           w1 == WrittenAfter(written, c1.st, c1.cur, c1.convs, FALSE)
           c2 == loadConversations([c1 EXCEPT !.cur = FALSE, !.convs = FALSE],
                                   localStorage)
       IN  Commit(c2, ls1, w1)
    /\ loadedRef' = TRUE
    /\ sendCalls' = sendCalls + 1
    /\ UNCHANGED <<mounted, upload, restarts, gestures, deleted, wire, pos,
                   decoder, buffer, emitted, midLine>>

\* HomePage.handleSend / handleSuggestionClick / handleRetry: sendMessage of
\* the current render
SendMessage ==
    /\ loadedRef
    /\ sendCalls < MaxSends
    /\ Commit(sendMessage(Task, [conv |-> store.currentConversation.id,
                                 isStreaming |-> store.isStreaming], UserText),
              localStorage, written)
    /\ sendCalls' = sendCalls + 1
    /\ UNCHANGED <<mounted, loadedRef, upload, restarts, gestures, deleted, wire, pos, decoder,
                   buffer, emitted, midLine>>

\* HomePage.handleFileUpload up to its await: the upload control is disabled
\* while isStreaming; the closure keeps the sendMessage of this render
FileUploadStart ==
    /\ loadedRef
    /\ ~store.isStreaming
    /\ ~upload.pending
    /\ Gesture
    /\ upload' = [pending |-> TRUE, conv |-> store.currentConversation.id]
    /\ UNCHANGED <<store, localStorage, mounted, loadedRef, controller, streams,
                   pendingRoute, nextId, now, sendCalls, chunkCount, restarts, deleted,
                   written, wire, pos, decoder,
                   buffer, emitted, midLine>>

\* uploadFile resolved: handleFileUpload calls the sendMessage it captured
FileUploadDone ==
    /\ upload.pending
    /\ sendCalls < MaxSends
    /\ Commit(sendMessage(Task, [conv |-> upload.conv, isStreaming |-> FALSE],
                          UserText),
              localStorage, written)
    /\ sendCalls' = sendCalls + 1
    /\ upload' = NoUpload
    /\ UNCHANGED <<mounted, loadedRef, restarts, gestures, deleted, wire, pos, decoder,
                   buffer, emitted, midLine>>

\* uploadFile rejected: the catch block alerts, nothing is sent
FileUploadFail ==
    /\ upload.pending
    /\ upload' = NoUpload
    /\ UNCHANGED <<store, localStorage, mounted, loadedRef, controller, streams,
                   pendingRoute, nextId, now, sendCalls, chunkCount, restarts, gestures, deleted,
                   written, wire, pos, decoder,
                   buffer, emitted, midLine>>

StreamStep(c) ==
    /\ Commit(c, localStorage, written)
    /\ UNCHANGED <<mounted, loadedRef, upload, sendCalls, restarts, gestures, deleted,
                   wire, pos, decoder,
                   buffer, emitted, midLine>>

\* fetch resolved: a response with a body, one without, or a non-success status
FetchResponse(s, kind) ==
    /\ streams[s].pc = "fetch"
    /\ StreamStep(
         IF kind = "ok" THEN [Task EXCEPT !.ss[s].pc = "read"]
         ELSE IF kind = "bad" THEN [Task EXCEPT !.ss[s].pc = "errbody"]
         ELSE Finish(onError(Task, s, ErrNoBody), s))

\* what response.json() of the error response settles with: an object with
\* a message, an object without one, the value null, or a rejection (the
\* body is no JSON text, or the transfer failed)
ErrorBodies == {"message", "nomessage", "null", "notjson"}

\* (await response.json().catch(() => ({ message: 'Stream request failed' })))
\* and errorData.message || `HTTP ${response.status}`: the message of the
\* Error the try block throws
errorMessage(errorData) ==
    IF errorData = "notjson" THEN ErrDefault
    ELSE IF errorData = "null" THEN ErrTypeError
    ELSE IF errorData = "message" THEN ErrServer
    ELSE ErrHttp

\* response.json() of the error response settled; the Error is thrown
ErrorBody(s, errorData) ==
    /\ streams[s].pc = "errbody"
    /\ StreamStep(Finish(onError(Task, s, errorMessage(errorData)), s))

\* fetch or reader.read() rejected with a network failure
NetworkFailure(s) ==
    /\ streams[s].pc \in {"fetch", "read"}
    /\ StreamStep(Finish(onError(Task, s, ErrNetwork), s))

ChunksIn(lines) == Cardinality({i \in 1..Len(lines) : lines[i].kind = "chunk"})

Deliveries == UNION {[1..n -> LineEvents] : n \in 1..MaxLines}

\* reader.read() resolved with bytes that complete the given lines
ReadDelivery(s, lines) ==
    /\ streams[s].pc = "read"
    /\ chunkCount + ChunksIn(lines) <= MaxChunks
    /\ StreamStep(RunLines(Task, s, lines, 1))

\* reader.read() resolved with done: the loop is left, onComplete is called
ReadDone(s) ==
    /\ streams[s].pc = "read"
    /\ StreamStep(Finish(onComplete(Task, s), s))

\* the Stop button, rendered while isStreaming
CancelStream ==
    /\ loadedRef
    /\ store.isStreaming
    /\ Gesture
    /\ Commit(cancelStream(Task), localStorage, written)
    /\ UNCHANGED <<mounted, loadedRef, upload, sendCalls, restarts, deleted,
                   wire, pos, decoder,
                   buffer, emitted, midLine>>

\* HomePage.handleNewChat
NewChat ==
    /\ loadedRef
    /\ Gesture
    /\ Commit([Task EXCEPT !.st = setCurrentConversation(@, NoConversation),
                           !.cur = TRUE, !.route = HomeRoute],
              localStorage, written)
    /\ UNCHANGED <<mounted, loadedRef, upload, sendCalls, restarts, deleted,
                   wire, pos, decoder,
                   buffer, emitted, midLine>>

\* HomePage.handleConversationClick
ConversationClick(conversationId) ==
    /\ loadedRef
    /\ conversationId \in ConversationIds
    /\ Gesture
    /\ pendingRoute' = conversationId
    /\ UNCHANGED <<store, localStorage, mounted, loadedRef, controller, streams,
                   upload, nextId, now, sendCalls, chunkCount, restarts, deleted, written,
                   wire, pos, decoder,
                   buffer, emitted, midLine>>

\* the navigation started by router.push completes; the page may be mounted
\* anew (its load effect runs again) or kept
Navigate ==
    /\ loadedRef
    /\ pendingRoute # NoRoute
    /\ \E remount \in BOOLEAN :
         IF remount
         THEN MountPage([Task EXCEPT !.route = NoRoute], pendingRoute)
         ELSE Commit(IF pendingRoute = HomeRoute
                     THEN [Task EXCEPT !.route = NoRoute]
                     ELSE loadConversation([Task EXCEPT !.route = NoRoute],
                                           localStorage, pendingRoute),
                     localStorage, written)
    /\ UNCHANGED <<mounted, loadedRef, upload, sendCalls, restarts, gestures, deleted,
                   wire, pos, decoder,
                   buffer, emitted, midLine>>

\* HomePage.handleConversationDelete
DeleteConversation(conversationId) ==
    /\ loadedRef
    /\ conversationId \in ConversationIds
    /\ Commit([Task EXCEPT
                 !.st = deleteConversation(@, conversationId),
                 !.convs = TRUE,
                 !.cur = (store.currentConversation.id = conversationId),
                 !.route = IF store.currentConversation.id = conversationId
                           THEN HomeRoute ELSE @,
                 !.ss = [s \in DOMAIN @ |->
                           IF InFlight(@[s]) /\ @[s].conv = conversationId
                           THEN [@[s] EXCEPT !.convDeleted = TRUE] ELSE @[s]]
                        \o <<>>],
              delete(localStorage, conversationId),
              {w \in written : w.id # conversationId})
    /\ deleted' = deleted \cup {conversationId}
    /\ Gesture
    /\ UNCHANGED <<mounted, loadedRef, upload, sendCalls, restarts, wire, pos, decoder,
                   buffer, emitted, midLine>>

\* forced shutdown: everything in memory is lost, localStorage stays
Restart ==
    /\ mounted
    /\ restarts < MaxRestarts
    /\ restarts' = restarts + 1
    /\ store' = InitialStore
    /\ mounted' = FALSE
    /\ loadedRef' = FALSE
    /\ controller' = 0
    /\ streams' = <<>>
    /\ upload' = NoUpload
    /\ pendingRoute' = NoRoute
    /\ chunkCount' = 0
    /\ UNCHANGED <<localStorage, nextId, now, sendCalls, gestures, deleted, written,
                   wire, pos, decoder,
                   buffer, emitted, midLine>>

Next ==
    \/ MountRender
    \/ MountEffects
    \/ EarlySendMessage
    \/ SendMessage
    \/ FileUploadStart
    \/ FileUploadDone
    \/ FileUploadFail
    \/ \E s \in DOMAIN streams, kind \in {"ok", "bad", "nobody"} : FetchResponse(s, kind)
    \/ \E s \in DOMAIN streams, errorData \in ErrorBodies : ErrorBody(s, errorData)
    \/ \E s \in DOMAIN streams : NetworkFailure(s)
    \/ \E s \in DOMAIN streams, lines \in Deliveries : ReadDelivery(s, lines)
    \/ \E s \in DOMAIN streams : ReadDone(s)
    \/ CancelStream
    \/ NewChat
    \/ \E id \in ConversationIds : ConversationClick(id)
    \/ Navigate
    \/ \E id \in ConversationIds : DeleteConversation(id)
    \/ Restart

Spec == Init /\ [][Next]_vars

(* ------------------- the response body, byte by byte -------------------- *)
\* lines of a response body
MaxBodyLines == 3

\* The bytes of a body.  "da" "ta: " are the two halves of the prefix
\* 'data: ', "[DO" "NE]" those of the sentinel; a JSON record is "{", the
\* characters of its content, "m" when it carries a message_id, "f" when
\* is_final is true, and "}"; "c3" "a9" are the two bytes of one character;
\* "{}" is the JSON text of an object without members, "null" that of null.
\* the sentinel line
DoneLine == <<"da", "ta: ", "[DO", "NE]">>

\* a record with is_final true
FinalLine == <<"da", "ta: ", "{", "a", "f", "}">>

\* lines that carry a chunk record
ChunkLines ==
    {<<"da", "ta: ", "{", "a", "}">>,
     <<"da", "ta: ", "{", "c3", "a9", "m", "}">>}

\* lines that end the stream
TerminalLines == {DoneLine, <<"da", "ta: ", " ", "[DO", "NE]", " ">>, FinalLine}

\* blank lines, lines without the prefix, data lines whose payload is no
\* chunk record: no JSON, null, an object without content
OtherLines ==
    {<<>>,
     <<" ">>,
     <<"x">>,
     <<" ", "da", "ta: ", "{", "a", "}">>,
     <<"da", "ta: ", "{", "a">>,
     <<"da", "ta: ", "null">>,
     <<"da", "ta: ", "{}">>}

LineTexts == ChunkLines \cup TerminalLines \cup OtherLines

RECURSIVE Join(_, _)
\* the lines joined by line feeds
Join(lines, i) ==
    IF i > Len(lines) THEN <<>>
    ELSE IF i = Len(lines) THEN lines[i]
    ELSE lines[i] \o <<"\n">> \o Join(lines, i + 1)

\* the bodies a server sends: lines, the last one terminated or not
Bodies ==
    {Join(ls, 1) \o tail :
        ls \in UNION {[1..n -> LineTexts] : n \in 0..MaxBodyLines},
        tail \in {<<>>, <<"\n">>}}

RECURSIVE decode(_, _, _, _)
\* decoder.decode(value, {stream: true}): a character whose bytes are not
\* all there yet is held back; a byte that fits nowhere becomes U+FFFD
decode(pending, value, i, text) ==
    IF i > Len(value) THEN [text |-> text, pending |-> pending]
    ELSE IF Len(pending) > 0
         THEN IF value[i] = "a9"
              THEN decode(<<>>, value, i + 1, Append(text, "e'"))
              ELSE decode(<<>>, value, i, Append(text, "U+FFFD"))
    ELSE IF value[i] = "c3" THEN decode(<<"c3">>, value, i + 1, text)
    ELSE IF value[i] = "a9" THEN decode(<<>>, value, i + 1, Append(text, "U+FFFD"))
    ELSE decode(<<>>, value, i + 1, Append(text, value[i]))

RECURSIVE split(_, _, _, _)
\* buffer.split('\n')
split(text, i, line, lines) ==
    IF i > Len(text) THEN Append(lines, line)
    ELSE IF text[i] = "\n" THEN split(text, i + 1, <<>>, Append(lines, line))
    ELSE split(text, i + 1, Append(line, text[i]), lines)

RECURSIVE trim(_)
\* String.prototype.trim
trim(text) ==
    IF Len(text) = 0 THEN text
    ELSE IF text[1] = " " THEN trim(Tail(text))
    ELSE IF text[Len(text)] = " " THEN trim(SubSeq(text, 1, Len(text) - 1))
    ELSE text

\* line.startsWith('data: ')
startsWith(line) == Len(line) >= 2 /\ line[1] = "da" /\ line[2] = "ta: "

\* the line loop without the is_final test: the record goes to onChunk
JSONparse_IgnoresFinal(data) ==
    LET t == trim(data)
        inner == SubSeq(t, 2, Len(t) - 1)
        flags == SelectSeq(inner, LAMBDA b : b \in {"m", "f"})
        content == SelectSeq(inner, LAMBDA b : b \notin {"m", "f"})
        wellFormed ==
            /\ Len(t) >= 2 /\ t[1] = "{" /\ t[Len(t)] = "}"
            /\ \A i \in 1..Len(content) : content[i] \in {"a", "e'"}
            /\ inner = content \o flags
            /\ flags \in {<<>>, <<"m">>, <<"f">>, <<"m", "f">>}
    IN  IF t = <<"{}">>
        THEN [kind |-> "chunk", content |-> undefined, id |-> 0]
        ELSE IF ~wellFormed THEN [kind |-> "skip", content |-> <<>>, id |-> 0]
        ELSE [kind |-> "chunk", content |-> content,
              id |-> IF Len(flags) > 0 /\ flags[1] = "m" THEN 101 ELSE 0]

\* JSON.parse(data) followed by the reading of chunk.is_final, up to the
\* callback: kind "skip" when either throws (no JSON text; null, which has
\* no properties); an object without members is handed to onChunk, its
\* content undefined
JSONparse(data) ==
    LET t == trim(data)
        inner == SubSeq(t, 2, Len(t) - 1)
        flags == SelectSeq(inner, LAMBDA b : b \in {"m", "f"})
        content == SelectSeq(inner, LAMBDA b : b \notin {"m", "f"})
        wellFormed ==
            /\ Len(t) >= 2 /\ t[1] = "{" /\ t[Len(t)] = "}"
            /\ \A i \in 1..Len(content) : content[i] \in {"a", "e'"}
            /\ inner = content \o flags
            /\ flags \in {<<>>, <<"m">>, <<"f">>, <<"m", "f">>}
    IN  IF t = <<"{}">>
        THEN [kind |-> "chunk", content |-> undefined, id |-> 0]
        ELSE IF ~wellFormed THEN [kind |-> "skip", content |-> <<>>, id |-> 0]
        ELSE IF Len(flags) > 0 /\ flags[Len(flags)] = "f"
             THEN [kind |-> "final", content |-> <<>>, id |-> 0]
        ELSE [kind |-> "chunk", content |-> content,
              id |-> IF Len(flags) > 0 THEN 101 ELSE 0]

\* the body of the line loop, up to the callback it makes
ParseLine(line) ==
    IF Len(trim(line)) = 0 THEN [kind |-> "skip", content |-> <<>>, id |-> 0]
    ELSE IF ~startsWith(line) THEN [kind |-> "skip", content |-> <<>>, id |-> 0]
    ELSE IF trim(SubSeq(line, 3, Len(line))) = <<"[DO", "NE]">>
         THEN [kind |-> "done", content |-> <<>>, id |-> 0]
    ELSE JSONparse(SubSeq(line, 3, Len(line)))

\* the read loop without the carry-over of the last fragment
ReadLoopTurn_NoCarry(c, s, dec, buf, value) ==
    LET d == decode(dec, value, 1, <<>>)
        lines == split(d.text, 1, <<>>, <<>>)
        complete == SubSeq(lines, 1, Len(lines) - 1)
        events == [i \in 1..Len(complete) |-> ParseLine(complete[i])] \o <<>>
        c1 == RunLines(c, s, events, 1)
        open == c1.ss[s].pc = "read"
    IN  [task |-> c1,
         decoder |-> IF open THEN d.pending ELSE <<>>,
         buffer |-> IF open THEN lines[Len(lines)] ELSE <<>>]

\* one turn of the read loop for a delivery value: decode, split, keep the
\* last fragment, run the complete lines
ReadLoopTurn(c, s, dec, buf, value) ==
    LET d == decode(dec, value, 1, <<>>)
        lines == split(buf \o d.text, 1, <<>>, <<>>)
        complete == SubSeq(lines, 1, Len(lines) - 1)
        events == [i \in 1..Len(complete) |-> ParseLine(complete[i])] \o <<>>
        c1 == RunLines(c, s, events, 1)
        open == c1.ss[s].pc = "read"
    IN  [task |-> c1,
         decoder |-> IF open THEN d.pending ELSE <<>>,
         buffer |-> IF open THEN lines[Len(lines)] ELSE <<>>]

\* the end of a task of the stream on the wire
WireStep(c, dec, buf, p) ==
    /\ Commit(c, localStorage, written)
    /\ emitted' = c.log
    /\ decoder' = dec
    /\ buffer' = buf
    /\ pos' = p
    /\ midLine' = (midLine \/ Len(buf) > 0 \/ Len(dec) > 0)
    /\ UNCHANGED <<mounted, loadedRef, upload, sendCalls, restarts, gestures,
                   deleted, wire>>

\* reader.read() resolved with the next k bytes of the body
ReadBytes(k) ==
    /\ Len(streams) = 1
    /\ streams[1].pc = "read"
    /\ pos + k <= Len(wire)
    /\ LET r == ReadLoopTurn(Task, 1, decoder, buffer, SubSeq(wire, pos + 1, pos + k))
       IN  WireStep(r.task, r.decoder, r.buffer, pos + k)

\* the end of the body with the kept fragment run as one more line
ReadEnd_ParsesRest ==
    /\ Len(streams) = 1
    /\ streams[1].pc = "read"
    /\ pos = Len(wire)
    /\ LET c1 == RunLines(Task, 1, <<ParseLine(buffer)>>, 1)
       IN  WireStep(IF c1.ss[1].pc = "read" THEN Finish(onComplete(c1, 1), 1)
                    ELSE c1,
                    <<>>, <<>>, pos)

\* reader.read() resolved with done after the last byte
ReadEnd ==
    /\ Len(streams) = 1
    /\ streams[1].pc = "read"
    /\ pos = Len(wire)
    /\ WireStep(Finish(onComplete(Task, 1), 1), <<>>, <<>>, pos)

\* the first message of a page load, answered by a body from Bodies
InitSSE ==
    /\ InitPage
    /\ wire \in Bodies

NextSSE ==
    \/ MountRender
    \/ MountEffects
    \/ sendCalls = 0 /\ SendMessage
    \/ Len(streams) = 1 /\ FetchResponse(1, "ok")
    \/ \E k \in 1..Len(wire) : ReadBytes(k)
    \/ ReadEnd

SpecSSE == InitSSE /\ [][NextSSE]_vars

\* streamChatCompletion run on a body that arrives in a single delivery,
\* followed by the end of the body: the callbacks it makes
OneShot(body) ==
    LET c0 == [Task EXCEPT !.log = <<>>,
                           !.ss = <<[NewStream(1, 2, TRUE) EXCEPT !.pc = "read"]>>]
        r == ReadLoopTurn(c0, 1, <<>>, <<>>, body)
    IN  IF r.task.ss[1].pc = "read" THEN onComplete(r.task, 1).log ELSE r.task.log

(* -------------------------------- claims -------------------------------- *)
Streams == DOMAIN streams

InFlightStreams == {s \in Streams : InFlight(streams[s])}

\* C4: at most one stream is in flight at any time: a sendMessage invoked
\* while an earlier stream has not reached its terminal event opens no second
\* transport request.
C4_SingleFlight == Cardinality(InFlightStreams) <= 1

IsPrefix(a, b) == Len(a) <= Len(b) /\ a = SubSeq(b, 1, Len(a))

\* C2: for a fixed response body, however its bytes are split into
\* deliveries, the callbacks made so far are a prefix of those the
\* single-delivery run makes, and once the call has returned they are the
\* same onChunk records followed by the same terminal callback.
C2_SplitInvariant ==
    Len(streams) = 1 =>
        /\ IsPrefix(emitted, OneShot(wire))
        /\ streams[1].pc = "closed" => emitted = OneShot(wire)

\* a stream that returned after a delivery had ended inside a line, having
\* handed over a record whose two-byte character arrived in two deliveries
C2_Witness ==
    /\ Len(streams) = 1
    /\ streams[1].pc = "closed"
    /\ midLine
    /\ Len(emitted) >= 3
    /\ \E i \in 1..Len(emitted) : emitted[i].content = <<"e'">>

\* the streams of this page load that exist before and after the step
Kept == {s \in Streams : s \in DOMAIN streams'}

\* the step in which stream s reaches the outcome o
Reaches(s, o) == streams[s].outcome = "none" /\ streams'[s].outcome = o

\* every copy of the conversation the store holds has the message
InEveryCopy(st, conversationId, messageId) ==
    /\ st.currentConversation.id = conversationId =>
           \E k \in 1..Len(st.currentConversation.messages) :
               st.currentConversation.messages[k].id = messageId
    /\ \A i \in 1..Len(st.conversations) :
           st.conversations[i].id = conversationId =>
               \E k \in 1..Len(st.conversations[i].messages) :
                   st.conversations[i].messages[k].id = messageId

\* C1: every stream that completes appends exactly one assistant message,
\* whose content is the concatenation of the chunk contents it received in
\* arrival order.  Stated for the streams that received some content and
\* whose conversation was not deleted meanwhile.
C1_CompleteAppendsConcat ==
    \A s \in Streams :
        /\ streams[s].outcome = "complete"
        /\ ~streams[s].empty
        /\ ~streams[s].convDeleted
        => streams[s].appended = 1 /\ streams[s].exact

\* C3: a stream that was in flight when cancelStream ran never appends an
\* assistant message.
C3_CancelNeverAppends ==
    \A s \in Streams : streams[s].cancelled => streams[s].appended = 0

\* C5: when a stream completes whose conversation was deleted while it was
\* in flight, its assistant message is applied to no conversation, the
\* deleted conversation is neither in the list nor current, and the store is
\* idle: isStreaming false, the streaming buffer empty.
C5_OrphanDiscarded ==
    [][\A s \in Kept :
          Reaches(s, "complete") /\ streams[s].convDeleted =>
              /\ streams'[s].appended = 0
              /\ ~HasConversation(store', streams[s].conv)
              /\ ~store'.isStreaming
              /\ store'.currentStreamingMessage = <<>>]_vars

\* a completed stream whose conversation had been deleted in flight and
\* whose non-empty assistant message no conversation took
C5_Witness ==
    \E s \in Streams :
        /\ streams[s].outcome = "complete"
        /\ streams[s].convDeleted
        /\ streams[s].lost = 1

\* C6: the user message is in its conversation when the streaming request
\* is issued, and it stays in every copy of the conversation the store
\* holds, whatever the outcome of the stream.
C6_UserMessageKept ==
    \A s \in Streams :
        /\ streams[s].userSeen
        /\ InEveryCopy(store, streams[s].conv, streams[s].userMsg)

\* C7: when onError is called for a stream, no assistant message is appended
\* for it, the error message is in the error state, the streaming buffer is
\* empty and isStreaming is false.
C7_ErrorClears ==
    [][\A s \in Kept :
          Reaches(s, "error") =>
              /\ streams'[s].appended = 0
              /\ streams'[s].err # NoError
              /\ store'.error = streams'[s].err
              /\ store'.currentStreamingMessage = <<>>
              /\ ~store'.isStreaming
              /\ store'.conversations = store.conversations
              /\ store'.currentConversation = store.currentConversation]_vars

\* the only stream of the page load failed after chunks had reached the
\* buffer; nothing but the user message is in its conversation
C7_Witness ==
    /\ Len(streams) = 1
    /\ streams[1].outcome = "error"
    /\ chunkCount >= 1
    /\ store.error = ErrNetwork
    /\ Len(store.currentConversation.messages) = 1

\* C8: a stream aborted by cancel() invokes none of its callbacks any more
\* and does not end with onError.
C8_AbortIsSilent ==
    \A s \in Streams :
        streams[s].aborted => streams[s].late = 0 /\ streams[s].outcome # "error"

\* C9: a call of streamChatCompletion makes at most one terminal callback
\* and no onChunk after it; once it has returned it has exactly one outcome:
\* onComplete, onError, or the silent stop of an aborted call.
C9_OneTerminal ==
    \A s \in Streams :
        /\ streams[s].nterm <= 1
        /\ streams[s].after = 0
        /\ streams[s].pc = "closed" <=> streams[s].outcome # "none"
        /\ streams[s].outcome \in {"complete", "error"} <=> streams[s].nterm = 1
        /\ streams[s].outcome = "silent" => streams[s].aborted

\* one call of the page load stopped silently, another completed after a
\* chunk and appended its message
C9_Witness ==
    /\ \E s \in Streams : streams[s].outcome = "silent"
    /\ \E s \in Streams : streams[s].outcome = "complete" /\ streams[s].appended = 1
    /\ chunkCount >= 1

\* C10: at a startup after a shutdown, every conversation handed to save
\* (and not deleted since) is in the list loadAll gives the store, equal in
\* id, title, and messages: same number, same order, same id, role, content
\* and timestamp each.
C10_RoundTrip ==
    [][~loadedRef /\ loadedRef' /\ restarts > 0 =>
          \A v \in written :
              \E i \in 1..Len(store'.conversations) : store'.conversations[i] = v]_vars

\* after a restart the store holds a conversation of two messages that no
\* call of this page load put there
C10_Witness ==
    /\ loadedRef
    /\ restarts = 1
    /\ Len(streams) = 0
    /\ \E i \in 1..Len(store.conversations) :
          /\ Len(store.conversations[i].messages) >= 2
          /\ store.conversations[i] \in written

\* the durable record of the conversation of stream s
DurableRecord(s) == load(localStorage, streams[s].conv)

\* C11: while a stream is in flight, the durable record of its conversation
\* contains the user message of the exchange and equals every copy of the
\* conversation the store holds, so that a shutdown loses no committed
\* message.  Stated for the streams whose conversation was not deleted while
\* they were in flight.
C11_DurableUserTurn ==
    \A s \in InFlightStreams :
        ~streams[s].convDeleted =>
            /\ \E k \in 1..Len(DurableRecord(s).messages) :
                  DurableRecord(s).messages[k].id = streams[s].userMsg
            /\ store.currentConversation.id = streams[s].conv =>
                  DurableRecord(s) = store.currentConversation
            /\ \A i \in 1..Len(store.conversations) :
                  store.conversations[i].id = streams[s].conv =>
                      DurableRecord(s) = store.conversations[i]

\* the body with its complete lines replaced one by one; the fragment after
\* the last line feed is kept
WithoutOtherLines(body) ==
    LET lines == split(body, 1, <<>>, <<>>)
        complete == SubSeq(lines, 1, Len(lines) - 1)
    IN  Join(SelectSeq(complete, LAMBDA l : l \notin OtherLines)
                 \o <<lines[Len(lines)]>>, 1)

FinalAsDone(body) ==
    LET lines == split(body, 1, <<>>, <<>>)
    IN  Join([i \in 1..Len(lines) |->
                 IF i < Len(lines) /\ lines[i] = FinalLine THEN DoneLine
                 ELSE lines[i]] \o <<>>, 1)

\* the callbacks of a kind in the log
Count(log, kind) == Cardinality({i \in 1..Len(log) : log[i].kind = kind})

\* C12: a blank line, a line without the prefix 'data: ' and a data line
\* whose payload is no valid chunk record are skipped: the stream makes the
\* callbacks it makes for the body without these lines, and never onError.
C12_OtherLinesSkipped ==
    Len(streams) = 1 =>
        /\ Count(emitted, "error") = 0
        /\ streams[1].pc = "closed" => emitted = OneShot(WithoutOtherLines(wire))

\* C13: a record with is_final true ends the stream as the sentinel does:
\* the callbacks are those of the body with the record replaced by [DONE];
\* onComplete is called once, as the last callback, and no line after the
\* record is processed.
C13_FinalEndsStream ==
    Len(streams) = 1 /\ streams[1].pc = "closed" =>
        /\ emitted = OneShot(FinalAsDone(wire))
        /\ Count(emitted, "complete") = 1
        /\ emitted[Len(emitted)].kind = "complete"

\* a chunk line, then the is_final record, then another chunk line,
\* delivered in pieces: one onChunk, then onComplete
C13_Witness ==
    /\ Len(streams) = 1
    /\ streams[1].pc = "closed"
    /\ midLine
    /\ wire = Join(<<<<"da", "ta: ", "{", "c3", "a9", "m", "}">>, FinalLine,
                     <<"da", "ta: ", "{", "a", "}">>, <<>>>>, 1)
    /\ Len(emitted) = 2

\* the copies of conversation id that the store st holds: the list entries
\* and currentConversation
Copies(st, id) ==
    {st.conversations[i] : i \in {j \in 1..Len(st.conversations) :
                                     st.conversations[j].id = id}}
    \cup (IF st.currentConversation.id = id /\ id # 0
          THEN {st.currentConversation} ELSE {})

\* ids of the conversations the store st holds
IdsIn(st) ==
    {st.conversations[i].id : i \in 1..Len(st.conversations)}
    \cup ({st.currentConversation.id} \ {0})

\* C14: no step of the page removes, reorders or rewrites a message of a
\* conversation the store keeps: the message sequence of every copy before
\* the step is a prefix of that of every copy after it.
C14_AppendOnly ==
    [][\A id \in IdsIn(store) :
          \A old \in Copies(store, id) : \A new \in Copies(store', id) :
              IsPrefix(old.messages, new.messages)]_vars

\* a conversation that grew to three messages: user, assistant, user
C14_Witness ==
    \E i \in 1..Len(store.conversations) :
        /\ Len(store.conversations[i].messages) = 3
        /\ store.conversations[i].messages[2].role = "assistant"
        /\ \E s \in InFlightStreams : streams[s].conv = store.conversations[i].id

\* a message no conversation holds yet
ProbeMessage ==
    [id |-> nextId, role |-> "assistant", content |-> <<"a">>, timestamp |-> now]

\* conversation new is conversation old with message m appended at the end
Appended(old, new, m) ==
    /\ new.messages = Append(old.messages, m)
    /\ new.id = old.id
    /\ new.title = old.title
    /\ new.created_at = old.created_at

\* C15: in every store the page reaches and for every id, known or not,
\* addMessage appends the message at the end of the list entries and of the
\* currentConversation with that id, leaves every other conversation and
\* the rest of the store as they are, and changes nothing when no
\* conversation has the id.
C15_AddMessageFrame ==
    \A id \in 1..nextId :
        LET st2 == addMessage(store, id, ProbeMessage, now)
        IN  /\ Len(st2.conversations) = Len(store.conversations)
            /\ \A i \in 1..Len(store.conversations) :
                  IF store.conversations[i].id = id
                  THEN Appended(store.conversations[i], st2.conversations[i],
                                ProbeMessage)
                  ELSE st2.conversations[i] = store.conversations[i]
            /\ IF store.currentConversation.id = id
               THEN Appended(store.currentConversation, st2.currentConversation,
                             ProbeMessage)
               ELSE st2.currentConversation = store.currentConversation
            /\ st2.isStreaming = store.isStreaming
            /\ st2.currentStreamingMessage = store.currentStreamingMessage
            /\ st2.error = store.error
            /\ id \notin IdsIn(store) => st2 = store

\* the store after addMessage has appended for one stream and found no
\* conversation for another; it holds a conversation besides the current one
C15_Witness ==
    /\ \E s \in Streams : streams[s].lost = 1
    /\ \E s \in Streams : streams[s].appended = 1
    /\ \E i \in 1..Len(store.conversations) :
          store.conversations[i].id # store.currentConversation.id

\* the stored records other than the one with the given id, in order
OtherRecords(ls, id) ==
    SelectSeq(getStoredConversations(ls), LAMBDA c : c.id # id)

\* C16: the step that deletes a conversation leaves it out of the list,
\* unsets currentConversation when it was the deleted one and keeps it
\* otherwise, leaves no stored record with the id, and keeps every other
\* conversation of the list and every other stored record as it was.
C16_DeleteFrame ==
    [][\A id \in deleted' \ deleted :
          /\ id \notin {store'.conversations[i].id :
                            i \in 1..Len(store'.conversations)}
          /\ store'.conversations =
                SelectSeq(store.conversations, LAMBDA c : c.id # id)
          /\ store'.currentConversation =
                IF store.currentConversation.id = id
                THEN NoConversation ELSE store.currentConversation
          /\ load(localStorage', id) = NoConversation
          /\ \A k \in 1..Len(getStoredConversations(localStorage')) :
                getStoredConversations(localStorage')[k].id # id
          /\ OtherRecords(localStorage', id) = OtherRecords(localStorage, id)]_vars

\* a conversation has been deleted while another one was open: the other one
\* is still the current one, in the list and stored
C16_Witness ==
    /\ deleted # {}
    /\ store.currentConversation.id # 0
    /\ store.currentConversation.id \in ConversationIds
    /\ load(localStorage, store.currentConversation.id) = store.currentConversation
    /\ Len(store.currentConversation.messages) > 0

\* every copy of every conversation of store st equals its stored record
Synced(st, ls) ==
    \A id \in IdsIn(st) : \A c \in Copies(st, id) : load(ls, id) = c

\* localStorage after a rename of conversation id and the save effects of
\* the render that follows it
AfterRename(id, title) ==
    useConversationPersistence(
        localStorage, updateConversation(store, id, [title |-> title]),
        store.currentConversation.id = id, TRUE, loadedRef)

UserAction ==
    \/ sendCalls' # sendCalls
    \/ gestures' # gestures
    \/ upload.pending' # upload.pending

\* C18: whenever a user action takes effect, every stored record has been
\* loaded: it is in the in-memory list.
C18_LoadedBeforeAction ==
    [][UserAction => StoredIds \subseteq ConversationIds]_vars

\* the conversation shows an assistant message that follows a user message:
\* the page gives that assistant message an onRetry
Retryable(conv) ==
    \E k \in 2..Len(conv.messages) :
        /\ conv.messages[k].role = "assistant"
        /\ conv.messages[k - 1].role = "user"

\* the step is handleSend of the current render, called by onRetry with the
\* text of the earlier user message
RetryStep ==
    /\ sendCalls' # sendCalls
    /\ loadedRef
    /\ upload' = upload
    /\ Retryable(store.currentConversation)

\* C19: a retry keeps every earlier message of the conversation, the earlier
\* assistant message included, unchanged and in place in every copy of the
\* conversation, and what it adds is at the end: the user message with the
\* original text when no stream is running, nothing otherwise.
C19_RetryAppends ==
    [][RetryStep =>
         LET id == store.currentConversation.id
         IN  /\ store'.currentConversation.id = id
             /\ \A old \in Copies(store, id) : \E new \in Copies(store', id) :
                   new.id = old.id
             /\ \A old \in Copies(store, id) : \A new \in Copies(store', id) :
                   /\ IsPrefix(old.messages, new.messages)
                   /\ Len(new.messages) =
                         Len(old.messages) + (IF store.isStreaming THEN 0 ELSE 1)
                   /\ ~store.isStreaming =>
                         /\ new.messages[Len(new.messages)].role = "user"
                         /\ new.messages[Len(new.messages)].content = UserText]_vars

\* a retried exchange has completed: user, assistant, the user text again,
\* and the second assistant message after it
C19_Witness ==
    /\ Len(store.currentConversation.messages) = 4
    /\ store.currentConversation.messages[1].role = "user"
    /\ store.currentConversation.messages[2].role = "assistant"
    /\ store.currentConversation.messages[3].role = "user"
    /\ store.currentConversation.messages[3].content =
          store.currentConversation.messages[1].content
    /\ store.currentConversation.messages[4].role = "assistant"
    /\ store.currentConversation.messages[4].id # store.currentConversation.messages[2].id

\* the first message_id in ids that a chunk carried, 0 when none did
FirstId(ids) ==
    IF \E k \in 1..Len(ids) : ids[k] # 0
    THEN ids[CHOOSE k \in 1..Len(ids) :
                 ids[k] # 0 /\ \A j \in 1..(k - 1) : ids[j] = 0]
    ELSE 0

\* C20: when the completion of a stream commits the assistant message, the
\* message is the last one of every copy of the conversation and its id is
\* the message_id of the first chunk of the stream that carried one; when
\* no chunk carried one it is the id generated in that step.
C20_FirstWriterWins ==
    [][\A s \in DOMAIN streams :
          s \in DOMAIN streams' /\ streams'[s].appended > streams[s].appended =>
              /\ Copies(store', streams[s].conv) # {}
              /\ \A conv \in Copies(store', streams[s].conv) :
                    LET m == conv.messages[Len(conv.messages)]
                    IN  /\ m.role = "assistant"
                        /\ IF FirstId(streams'[s].ids) # 0
                           THEN m.id = FirstId(streams'[s].ids) /\ nextId' = nextId
                           ELSE m.id = nextId /\ nextId' = nextId + 1]_vars

\* a stream whose first chunk carried message_id 101 and whose second one
\* carried 102 has completed, and the message it committed has id 101
C20_Witness ==
    \E s \in Streams :
        /\ streams[s].appended = 1
        /\ streams[s].ids = <<101, 102>>
        /\ \E conv \in Copies(store, streams[s].conv) :
              \E k \in 1..Len(conv.messages) :
                  conv.messages[k].role = "assistant" /\ conv.messages[k].id = 101

\* the message sequences of the conversations of store st, list and current
MessagesOf(st) ==
    <<[i \in 1..Len(st.conversations) |-> st.conversations[i].messages] \o <<>>,
      st.currentConversation.messages>>

\* stream s completes in this step and the buffer onComplete read was ''
CompletesEmpty(s) ==
    /\ streams[s].outcome # "complete"
    /\ s \in DOMAIN streams'
    /\ streams'[s].outcome = "complete"
    /\ streams'[s].exact
    /\ streams'[s].empty

\* C21: when a stream completes and the streaming buffer is empty, the step
\* appends no message to any conversation (none is handed to addMessage),
\* and it leaves isStreaming false and the buffer empty.
C21_EmptyCompletion ==
    [][\A s \in DOMAIN streams :
          CompletesEmpty(s) =>
              /\ MessagesOf(store') = MessagesOf(store)
              /\ streams'[s].appended = streams[s].appended
              /\ streams'[s].lost = streams[s].lost
              /\ nextId' = nextId
              /\ ~store'.isStreaming
              /\ store'.currentStreamingMessage = <<>>]_vars

\* a stream has completed without content: its conversation holds the user
\* message of the exchange and nothing after it, and the page is idle
C21_Witness ==
    \E s \in Streams :
        /\ streams[s].outcome = "complete"
        /\ streams[s].exact /\ streams[s].empty
        /\ streams[s].appended = 0 /\ streams[s].lost = 0
        /\ ~store.isStreaming
        /\ store.currentConversation.id = streams[s].conv
        /\ Len(store.currentConversation.messages) = 1
        /\ store.currentConversation.messages[1].role = "user"

\* every copy of every conversation of st has updated_at >= created_at
TimestampsOrdered(st) ==
    \A id \in IdsIn(st) : \A c \in Copies(st, id) : c.updated_at >= c.created_at

\* updated_at of every copy that got a message in the step from st to st2
\* is later than it was
AppendAdvances(st, st2) ==
    \A id \in IdsIn(st) :
        \A old \in Copies(st, id) : \A new \in Copies(st2, id) :
            Len(new.messages) > Len(old.messages) =>
                new.updated_at > old.updated_at

\* updated_at of every conversation of st is later after its rename through
\* updateConversation(id, { title })
RenameAdvances(st) ==
    \A id \in IdsIn(st) :
        \A old \in Copies(st, id) :
            \A new \in Copies(updateConversation(st, id, [title |-> "renamed"]), id) :
                new.updated_at > old.updated_at

\* C22: after every step updated_at of every conversation is not earlier
\* than created_at, a step that appends a message to a conversation
\* advances its updated_at, and so does a rename of any conversation
\* through updateConversation.
C22_UpdatedAtAdvances ==
    [][/\ TimestampsOrdered(store')
       /\ AppendAdvances(store, store')
       /\ RenameAdvances(store')]_vars

(* ------------- conversationPersistence called by any client ------------- *)
\* ids of the conversations handed to save and delete
MaxStoredIds == 3

\* the conversations a caller hands to save
StoredValues ==
    [id : 1..MaxStoredIds,
     title : {"New Chat", "renamed"},
     messages : {<<>>,
                 <<[id |-> 1, role |-> "user", content |-> UserText,
                    timestamp |-> 0]>>},
     created_at : {0},
     updated_at : {0}]

\* conversationPersistence.save(conversation)
PersistSave(conversation) ==
    /\ localStorage' = save(localStorage, conversation)
    /\ written' = {w \in written : w.id # conversation.id} \cup {conversation}
    /\ UNCHANGED <<store, mounted, loadedRef, controller, streams, upload,
                   pendingRoute, nextId, now, sendCalls, chunkCount, restarts,
                   gestures, deleted, wire, pos, decoder, buffer, emitted, midLine>>

\* conversationPersistence.delete(conversationId)
PersistDelete(conversationId) ==
    /\ localStorage' = delete(localStorage, conversationId)
    /\ written' = {w \in written : w.id # conversationId}
    /\ deleted' = deleted \cup {conversationId}
    /\ UNCHANGED <<store, mounted, loadedRef, controller, streams, upload,
                   pendingRoute, nextId, now, sendCalls, chunkCount, restarts,
                   gestures, wire, pos, decoder, buffer, emitted, midLine>>

NextStorage ==
    \/ \E conversation \in StoredValues : PersistSave(conversation)
    \/ \E conversationId \in 1..MaxStoredIds : PersistDelete(conversationId)

SpecStorage == Init /\ [][NextStorage]_vars

\* the array save leaves when the stored array is convs
Replaced(convs, c) ==
    IF findIndex(convs, c.id) # 0
    THEN [convs EXCEPT ![findIndex(convs, c.id)] = c]
    ELSE <<c>> \o convs

\* the last value handed to save for the id since its last delete, null
\* (NoConversation) when there is none
LastSaved(id) ==
    IF \E w \in written : w.id = id
    THEN CHOOSE w \in written : w.id = id
    ELSE NoConversation

ErrorStatusEnds(s) ==
    /\ streams[s].pc = "errbody"
    /\ s \in DOMAIN streams'
    /\ streams'[s].pc # "errbody"

\* C24: a stream that got a non-success status has had no callback while
\* the error body is awaited; the step that ends it makes exactly one
\* onError call and no onChunk or onComplete call, and the message of the
\* error is the one extracted from the body or one of the two defaults
\* ('Stream request failed', 'HTTP <status>').
C24_HttpError ==
    [][\A s \in DOMAIN streams :
          /\ streams[s].pc = "errbody" =>
                streams[s].nterm = 0 /\ streams[s].ids = <<>>
          /\ ErrorStatusEnds(s) =>
                /\ streams'[s].nterm = 1
                /\ streams'[s].outcome = "error"
                /\ streams'[s].ids = <<>>
                /\ streams'[s].appended = 0 /\ streams'[s].lost = 0
                /\ streams'[s].err \in {ErrServer, ErrDefault, ErrHttp}]_vars

\* the lines of a body, decoded as a whole: those terminated by a line feed,
\* and the fragment after the last line feed
Decoded(body) == split(decode(<<>>, body, 1, <<>>).text, 1, <<>>, <<>>)
WholeLines(body) == SubSeq(Decoded(body), 1, Len(Decoded(body)) - 1)
Fragment(body) == Decoded(body)[Len(Decoded(body))]

\* no terminated line of the body is a [DONE] line or an is_final record
ClosedByServer(body) ==
    \A i \in 1..Len(WholeLines(body)) :
        ParseLine(WholeLines(body)[i]).kind \notin {"done", "final"}

\* the chunk records of the given lines, in order
ChunkEvents(lines) ==
    SelectSeq([i \in 1..Len(lines) |-> ParseLine(lines[i])] \o <<>>,
              LAMBDA e : e.kind = "chunk")

\* C25: when the body has closed and none of its terminated lines ended the
\* stream, the callbacks made are onChunk for the chunk records of the
\* terminated lines, in order, followed by onComplete, once; nothing is
\* emitted for the fragment after the last line feed.
C25_CloseCompletes ==
    Len(streams) = 1 /\ streams[1].pc = "closed" /\ ClosedByServer(wire) =>
        /\ emitted = ChunkEvents(WholeLines(wire)) \o
                        <<[kind |-> "complete", content |-> <<>>, id |-> 0]>>
        /\ streams[1].outcome = "complete"
        /\ streams[1].nterm = 1

\* a body of one chunk line and an unterminated chunk line after it has
\* closed, delivered in pieces: one chunk and the completion were emitted
C25_Witness ==
    /\ Len(streams) = 1 /\ streams[1].pc = "closed"
    /\ ClosedByServer(wire)
    /\ midLine
    /\ Len(WholeLines(wire)) = 1
    /\ Fragment(wire) \in {<<"da", "ta: ", "{", "a", "}">>, <<"da", "ta: ", "[DO", "NE]">>}
    /\ Count(emitted, "chunk") = 1
    /\ Count(emitted, "complete") = 1

(* ------------------ SSEClient called by any client ---------------------- *)
\* calls of streamChatCompletion on one SSEClient
MaxOpens == 3

\* streamChatCompletion called by a client that saw isStreaming() false; the
\* call runs to its first await
ClientOpen ==
    /\ Len(streams) < MaxOpens
    /\ controller = 0
    /\ StreamStep(streamChatCompletion(Task, 1, 0))

\* cancel() called by the client; the rejection it causes is delivered to
\* the aborted call once the client's code has run to its end
ClientCancel ==
    /\ controller # 0
    /\ StreamStep(cancel(Task))

\* the aborted call resumes with the rejection and runs to its end
ClientAbortSettles(s) ==
    /\ InFlight(streams[s])
    /\ streams[s].aborted
    /\ StreamStep(AbortContinuation(Task, s))

NextClient ==
    \/ ClientOpen
    \/ ClientCancel
    \/ \E s \in DOMAIN streams : ClientAbortSettles(s)
    \/ \E s \in DOMAIN streams : ~streams[s].aborted /\ FetchResponse(s, "ok")
    \/ \E s \in DOMAIN streams : ~streams[s].aborted /\ FetchResponse(s, "bad")
    \/ \E s \in DOMAIN streams, errorData \in ErrorBodies :
          ~streams[s].aborted /\ ErrorBody(s, errorData)
    \/ \E s \in DOMAIN streams, lines \in Deliveries :
          ~streams[s].aborted /\ ReadDelivery(s, lines)
    \/ \E s \in DOMAIN streams : ~streams[s].aborted /\ ReadDone(s)

SpecClient == Init /\ [][NextClient]_vars

\* C26: for every stream that was opened and has neither reached its
\* terminal outcome nor been aborted, isStreaming() is true and the
\* controller cancel() would abort is the one of that stream.
C26_ControllerTracksStream ==
    \A s \in InFlightStreams : ~streams[s].aborted => controller = s

\* stream s hands its assistant message to addMessage in this step
CommitsMessage(s) ==
    /\ s \in DOMAIN streams'
    /\ streams'[s].appended + streams'[s].lost > streams[s].appended + streams[s].lost

\* C27: when a stream commits its assistant message, the message becomes
\* the last one of the conversation sendMessage was invoked for, which the
\* store still holds unless it was deleted, and the messages of every other
\* conversation stay as they were, whatever currentConversation is by then.
C27_RightConversation ==
    [][\A s \in DOMAIN streams :
          CommitsMessage(s) =>
              /\ streams[s].conv \notin deleted =>
                    /\ Copies(store', streams[s].conv) # {}
                    /\ \A conv \in Copies(store', streams[s].conv) :
                          /\ Len(conv.messages) > 0
                          /\ conv.messages[Len(conv.messages)].role = "assistant"
                    /\ \A old \in Copies(store, streams[s].conv) :
                          \A new \in Copies(store', streams[s].conv) :
                              Len(new.messages) = Len(old.messages) + 1
              /\ \A id \in IdsIn(store) \cup IdsIn(store') :
                    id # streams[s].conv =>
                        {c.messages : c \in Copies(store', id)} =
                        {c.messages : c \in Copies(store, id)}]_vars

\* the step is sendMessage of the current render, called while that render's
\* isStreaming is true
RejectedSend ==
    /\ sendCalls' # sendCalls
    /\ loadedRef
    /\ upload' = upload
    /\ store.isStreaming

\* C28: a sendMessage call rejected because a stream is in flight leaves
\* the store as it is (conversations, currentConversation, streaming buffer,
\* isStreaming), opens no stream and does not navigate.
C28_RejectedSendNoEffect ==
    [][RejectedSend =>
         /\ store' = store
         /\ streams' = streams
         /\ pendingRoute' = pendingRoute]_vars

\* C29: in every state the page reaches, when isStreaming is false
\* currentStreamingMessage is the empty text: no chunk is in the buffer
\* once the store is idle.
C29_IdleBufferEmpty ==
    ~store.isStreaming => store.currentStreamingMessage = <<>>

\* in store st, the list entry with the id of currentConversation, when
\* there is one, holds the messages of currentConversation in the same order
CurrentMatchesList(st) ==
    st.currentConversation.id # 0 =>
        \A i \in 1..Len(st.conversations) :
            st.conversations[i].id = st.currentConversation.id =>
                st.conversations[i].messages = st.currentConversation.messages

\* C30: in every state the page reaches (after create, addMessage,
\* deleteConversation, the load at startup, the load of the conversation of
\* the route), and after updateConversation applied to any conversation of
\* such a state, currentConversation and the list entry with its id hold
\* the same messages in the same order.
C30_CurrentMatchesList ==
    /\ CurrentMatchesList(store)
    /\ \A id \in IdsIn(store) :
          CurrentMatchesList(updateConversation(store, id, [title |-> "renamed"]))

\* after a restart the conversation of the route was loaded from storage
\* into the list and as currentConversation, and a stream has since added
\* its assistant message to both copies
C30_Witness ==
    /\ restarts = 1
    /\ store.currentConversation.id # 0
    /\ store.currentConversation.id \in ConversationIds
    /\ Len(store.currentConversation.messages) >= 3
    /\ \E s \in Streams :
          /\ streams[s].conv = store.currentConversation.id
          /\ streams[s].appended = 1

====
